---- MODULE Spec2Model ----
(***************************************************************************)
(* The stream playback supervisor (StreamPlayer) of the lofi radio CLI.    *)
(*                                                                         *)
(* JavaScript runs every callback to completion, and drains the microtask  *)
(* and nextTick queues before the next timer or I/O callback.  One action  *)
(* of this model is therefore one macrotask: a caller's call, a timer      *)
(* callback or a child-process event, together with every promise          *)
(* continuation it releases.                                               *)
(*                                                                         *)
(* Time is counted in units of 1000 ms.  A timer holds the time it still   *)
(* has to wait; Tick lets one unit pass and is disabled while a timer is   *)
(* due, so timers fire in the order of their deadlines.                    *)
(***************************************************************************)
EXTENDS Integers, Sequences, FiniteSets, TLC

\* ---- program constants (time in units of 1000 ms) ----
maxReconnectAttempts == 5
reconnectDelay == 3
GraceDelay == 1
KillDelay == 2
DefaultVolume == 70

\* ---- bounds of the model ----
\* MaxCalls: play() invocations the model follows at a time (an invocation is
\* forgotten one step after it can no longer act or be acted on).
\* MaxOps: calls of the caller plus failures (fatal stderr chunks, non-zero
\* exits, failed spawns) in a run of Spec.
\* MaxStormFailures: failures in a run of SpecStorm, where the caller calls once.
\* MaxClockSteps: advances of the wall clock in a run of SpecObserve.
MaxCalls == 2
MaxOps == 3
MaxStormFailures == 6
MaxClockSteps == 2

\* ---- value domains ----
Stations == {"A", "B"}
NoStation == "none"
NoProc == 0
NoVolumeArg == 0 - 1000
VolumeArgs == {NoVolumeArg}
SetVolumeArgs == {40, 150}
ExitCodes == {0, 1}
SpawnOutcomes == {"ok", "enoent", "eacces", "throw"}
\* The volumes of a run of SpecVolume: left out, falsy, inside and outside
\* [0,100] for play(station, v); the edges of [0,100] for setVolume(v).
PlayVolumes == {NoVolumeArg, 0, 40, 150}
SetVolumes == {0 - 1, 0, 40, 100, 101}
\* The advances of the wall clock in a run of SpecUptime, in ms: less than a
\* second, and what brings the elapsed time, alone or in pairs, to 45 s,
\* 125 s and 3603 s and to each side of one minute and of one hour.
ClockSteps == {999, 45000, 59001, 80000, 3540999, 3603000}
\* The times a caller sets on a Date it holds: the epoch.
SetTimes == {0}

VARIABLES
    isPlaying,          \* state.isPlaying
    currentStation,     \* state.currentStation
    volume,             \* state.volume
    startTime,          \* state.startTime: "null" or "date"
    process,            \* state.process: NoProc or the id of the child object
    reconnectAttempts,  \* this.reconnectAttempts
    calls,              \* one record per play() invocation and the child it spawned
    killTimers,         \* pending escalation timers of stop()
    reconnectTimers,    \* pending reconnect timers of handleStreamError()
    ev,                 \* the events emitted by the last macrotask
    op,                 \* the call the caller made in the last macrotask, if any
    userLeft,           \* calls the caller may still make
    failLeft,           \* failures that may still happen
    reconnSince,        \* reconnecting events since playback was last confirmed (-1: the
                        \* caller has called since, or playback was never confirmed)
    lost,               \* connection_lost has been emitted and the caller has not called since
    now,                \* the wall clock that new Date() reads, in ms
    startMs,            \* the time value of the Date that state.startTime refers to
    snap,               \* the value the caller holds from its last getState()
    uptime,             \* what getUptime() returned in the last macrotask
    clockLeft,          \* advances of the wall clock that may still happen
    repl                \* the RadioREPL listening to the supervisor, if there is one

vars == <<isPlaying, currentStation, volume, startTime, process, reconnectAttempts,
          calls, killTimers, reconnectTimers, ev, op, userLeft, failLeft, reconnSince,
          lost, now, startMs, snap, uptime, clockLeft, repl>>

CallIds == 1..MaxCalls

\* A call of the caller: the method, and the volume argument of play(station, v)
\* and setVolume(v).
CallerOp(name, v) == [name |-> name, v |-> v]

NoOp == CallerOp("none", NoVolumeArg)

\* The caller has called getState() not yet; getUptime() was not called.
NoSnap == [taken |-> FALSE]

NoUptime == ""

\* No RadioREPL listens to the supervisor.
NoRepl == [attached |-> FALSE]

\* A RadioREPL and its mirrored fields isPlaying and currentStation.
Repl(playing, station) ==
    [attached |-> TRUE, isPlaying |-> playing, currentStation |-> station]

\* A slot of calls that follows no play() invocation.
FreeCall ==
    [station |-> NoStation, vol |-> NoVolumeArg, origin |-> "none", phase |-> "free",
     promise |-> "none", grace |-> 0 - 1, alive |-> FALSE, lst |-> "none",
     stopK |-> 0, term |-> FALSE, killed |-> FALSE, outcome |-> "none",
     cancelled |-> FALSE, stale |-> FALSE, failed |-> FALSE, stopLost |-> FALSE,
     exitCode |-> 0 - 1]

\* The play() call c waits for a stop() whose exit listener is still registered
\* on a running child.
Awaited(cs, c) ==
    \E p \in CallIds : cs[p].alive /\ cs[p].lst = "stop" /\ cs[p].stopK = c

\* Nothing can act on the call c any more, and it can do nothing: its child
\* is gone, its grace timer has fired and the supervisor does not hold it; or
\* it waits for a stop() that cannot complete.
Finished(cs, proc, c) ==
    \/ /\ cs[c].phase \in {"spawned", "failed"}
       /\ ~cs[c].alive
       /\ cs[c].grace < 0
       /\ proc # c
    \/ /\ cs[c].phase \in {"awaitStop", "thenPlay"}
       /\ ~Awaited(cs, c)

\* The supervisor's mutable state as one value, so that a handler is a
\* function from state to state and handlers compose as the code calls them.
\* Finished calls and the escalation timers of children that have exited
\* are dropped: a state shows them for one step, as it shows ev.
Cur ==
    LET cs == [c \in CallIds |->
                 IF Finished(calls, process, c) THEN FreeCall
                 ELSE IF ~calls[c].alive
                      THEN [calls[c] EXCEPT !.stopK = 0, !.term = FALSE, !.killed = FALSE,
                                            !.outcome = "none", !.stale = FALSE,
                                            !.stopLost = FALSE, !.exitCode = 0 - 1]
                      ELSE [calls[c] EXCEPT !.outcome = "none", !.stale = FALSE,
                                            !.stopLost = FALSE]]
    IN [isPlaying |-> isPlaying, currentStation |-> currentStation, volume |-> volume,
        startTime |-> startTime, process |-> process,
        reconnectAttempts |-> reconnectAttempts, calls |-> cs,
        killTimers |-> {t \in killTimers : cs[t.proc].alive},
        reconnectTimers |-> reconnectTimers, ev |-> <<>>, op |-> NoOp, cost |-> 0,
        now |-> now, startMs |-> startMs, newDate |-> FALSE, snap |-> snap,
        uptime |-> NoUptime]

HasFree(s) == \E c \in CallIds : s.calls[c].phase = "free"

FreeId(s) == CHOOSE c \in CallIds :
                /\ s.calls[c].phase = "free"
                /\ \A d \in CallIds : s.calls[d].phase = "free" => c <= d

\* this.emit(type, ...).  src is the play() call the event comes from (the
\* child whose failure is reported, the call whose grace timer fired, the
\* child that exited); afterStop tells whether stop() had been invoked on
\* that child before the macrotask that emits the event.
Event(type, station, n, src, afterStop) ==
    [type |-> type, station |-> station, n |-> n, src |-> src, afterStop |-> afterStop]

Emit(s, e) == [s EXCEPT !.ev = Append(@, e)]

\* A play() invocation: its arguments, its promise, the grace timer it set and
\* the child process it spawned.
NewCall(station, vol, origin, phase, stale) ==
    [station |-> station, vol |-> vol, origin |-> origin, phase |-> phase,
     promise |-> "pending", grace |-> 0 - 1, alive |-> FALSE, lst |-> "none",
     stopK |-> 0, term |-> FALSE, killed |-> FALSE, outcome |-> "none",
     cancelled |-> FALSE, stale |-> stale, failed |-> FALSE, stopLost |-> FALSE,
     exitCode |-> 0 - 1]

AddCall(s, station, vol, origin, phase, stale) ==
    [s EXCEPT !.calls[FreeId(s)] = NewCall(station, vol, origin, phase, stale)]

\* A stop() that reports completion as soon as it has sent SIGTERM, without
\* waiting for the exit of the child.
StopBodyEager(s, k) ==
    IF s.process = NoProc THEN s
    ELSE LET p == s.process IN
         Emit([s EXCEPT !.isPlaying = FALSE,
                        !.currentStation = NoStation,
                        !.startTime = "null",
                        !.calls[p].lst = "stop",
                        !.calls[p].stopK = k,
                        !.calls[p].term = s.calls[p].alive,
                        !.killTimers = @ \cup {[proc |-> p, rem |-> KillDelay]}],
              Event("stopped", NoStation, 0, p, TRUE))

\* stop(): returns at once without a process; otherwise clears the playback
\* state, replaces the child's listeners by its own exit listener, sends
\* SIGTERM and arms the escalation timer.  k is the play() call that awaits
\* this stop's promise (0: nobody the supervisor knows of).
\* calls[p].stopLost records that a stop() promise on the child p is left with
\* nothing that can resolve it: removeAllListeners() has just dropped the exit
\* listener of an earlier stop(), or the handle is that of a child that never
\* started, which emits no exit.
StopProcess(s, k) ==
    LET p == s.process IN
    [s EXCEPT !.isPlaying = FALSE,
              !.currentStation = NoStation,
              !.startTime = "null",
              !.calls[p].lst = "stop",
              !.calls[p].stopK = k,
              !.calls[p].term = s.calls[p].alive,
              !.calls[p].stopLost = (s.calls[p].lst = "stop" \/ ~s.calls[p].alive),
              !.calls[p].cancelled =
                   @ \/ (s.calls[p].promise = "pending" /\ s.calls[p].grace >= 0),
              !.killTimers = @ \cup {[proc |-> p, rem |-> KillDelay]}]

\* A stop() without the early return of line 103: with no process it still
\* clears the playback state before it resolves.
StopBodyUnguarded(s, k) ==
    IF s.process = NoProc
    THEN [s EXCEPT !.isPlaying = FALSE, !.currentStation = NoStation, !.startTime = "null"]
    ELSE StopProcess(s, k)

\* A stop() that forgets to clear startTime.
StopBodyKeepsStartTime(s, k) ==
    IF s.process = NoProc THEN s
    ELSE [StopProcess(s, k) EXCEPT !.startTime = s.startTime]

StopBody(s, k) ==
    IF s.process = NoProc THEN s ELSE StopProcess(s, k)

\* A handleStreamError whose cap test is off by one (<= instead of <).
HandleStreamErrorOffByOne(s, station, src) ==
    LET after == s.calls[src].lst = "stop"
        s1 == Emit([s EXCEPT !.calls[src].failed = @ \/ s.calls[src].grace >= 0],
                   Event("error", station, 0, src, after))
    IN IF s1.reconnectAttempts <= maxReconnectAttempts
       THEN LET n == s1.reconnectAttempts + 1 IN
            [Emit(s1, Event("reconnecting", station, n, src, after)) EXCEPT
                !.reconnectAttempts = n,
                !.reconnectTimers =
                    Append(@, [station |-> station, rem |-> reconnectDelay,
                               superseded |-> FALSE])]
       ELSE StopBody(Emit(s1, Event("connection_lost", station, 0, src, after)), 0)

\* handleStreamError(error), for a failure of the child of the call src.
\* calls[src].failed records a failure seen before the grace timer of src fired.
HandleStreamError(s, station, src) ==
    LET after == s.calls[src].lst = "stop"
        s1 == Emit([s EXCEPT !.calls[src].failed = @ \/ s.calls[src].grace >= 0],
                   Event("error", station, 0, src, after))
    IN IF s1.reconnectAttempts < maxReconnectAttempts
       THEN LET n == s1.reconnectAttempts + 1 IN
            [Emit(s1, Event("reconnecting", station, n, src, after)) EXCEPT
                !.reconnectAttempts = n,
                !.reconnectTimers =
                    Append(@, [station |-> station, rem |-> reconnectDelay,
                               superseded |-> FALSE])]
       ELSE StopBody(Emit(s1, Event("connection_lost", station, 0, src, after)), 0)

\* The catch of the reconnect timer's callback: a rejected play() made by a
\* reconnect attempt re-enters handleStreamError.
ReconnectCatch(s, c) ==
    IF s.calls[c].origin = "reconnect"
    THEN HandleStreamError(s, s.calls[c].station, c)
    ELSE s

\* An 'error' listener that makes no difference between ENOENT and the other
\* process errors: it never rejects.
ErrorListenerNoReject(s, c, enoent) ==
    HandleStreamError([s EXCEPT !.isPlaying = FALSE], s.calls[c].station, c)

\* The 'error' listener that play() registered on the child of the call c,
\* run for a spawn that failed: ENOENT rejects the promise of play(), and the
\* rejection reaches whoever awaits it; any other error is a stream error.
ErrorListener(s, c, enoent) ==
    LET s1 == [s EXCEPT !.isPlaying = FALSE] IN
    IF enoent
    THEN ReconnectCatch([s1 EXCEPT !.calls[c].promise = "rejected"], c)
    ELSE HandleStreamError(s1, s1.calls[c].station, c)

\* play() from line 27 on: record station and volume, spawn, register the
\* listeners and the grace timer.  o is what spawn does.
PlayRest(s, c, o) ==
    LET station == s.calls[c].station
        v == s.calls[c].vol
        s1 == [s EXCEPT !.currentStation = station,
                        !.volume = IF v = NoVolumeArg \/ v = 0 THEN @ ELSE v,
                        !.startTime = "date",
                        !.startMs = s.now,
                        !.newDate = TRUE,
                        !.calls[c].outcome = o,
                        !.calls[c].vol = NoVolumeArg,
                        !.cost = IF o = "ok" THEN @ ELSE @ + 1]
        spawned == [s1 EXCEPT !.process = c,
                              !.isPlaying = TRUE,
                              !.reconnectAttempts = 0,
                              !.calls[c].phase = "spawned",
                              !.calls[c].lst = "play",
                              !.calls[c].grace = GraceDelay]
    IN CASE o = "ok" -> [spawned EXCEPT !.calls[c].alive = TRUE]
         [] o = "throw" ->
              ReconnectCatch([s1 EXCEPT !.isPlaying = FALSE,
                                        !.calls[c].phase = "failed",
                                        !.calls[c].promise = "rejected"], c)
         [] o = "enoent" -> ErrorListener(spawned, c, TRUE)
         [] OTHER -> ErrorListener(spawned, c, FALSE)

\* A play() that spawns at once, without stopping what plays.
PlayBodyNoStop(s, c, o) == PlayRest(s, c, o)

\* play(): stop first when playing, and go on once that stop has completed.
PlayBody(s, c, o) ==
    IF s.isPlaying /\ s.process # NoProc
    THEN StopBody([s EXCEPT !.calls[c].phase = "awaitStop"], c)
    ELSE PlayRest(s, c, o)

\* ---- the macrotasks ----

Count(seq, type) == Cardinality({i \in 1..Len(seq) : seq[i].type = type})

Min(a, b) == IF a < b THEN a ELSE b

\* The value the caller holds after a macrotask.  Its Date is the one
\* state.startTime refers to until play() assigns a new Date or stop() assigns
\* null; its process handle is the one state.process refers to until that
\* field is assigned.  A handle the supervisor has dropped is shown as NoProc.
Held(s) ==
    IF ~s.snap.taken THEN NoSnap
    ELSE [s.snap EXCEPT
            !.dateShared = @ /\ s.startTime = "date" /\ ~s.newDate,
            !.process = IF @ = s.process /\ @ = process THEN @ ELSE NoProc]

\* The RadioREPL after its listeners have run for the events of a
\* macrotask: playing sets the mirrored flag and station, stopped clears
\* them, error and reconnecting leave them.
Heard(r, events) ==
    LET heard == {i \in 1..Len(events) : events[i].type \in {"playing", "stopped"}}
    IN IF ~r.attached \/ heard = {} THEN r
       ELSE LET last == CHOOSE i \in heard : \A j \in heard : j <= i
            IN IF events[last].type = "playing"
               THEN Repl(TRUE, events[last].station)
               ELSE Repl(FALSE, NoStation)

\* The state after a macrotask.  user: the macrotask is a call of the caller.
Commit(s, user) ==
    /\ user => userLeft > 0
    /\ s.cost <= failLeft
    /\ userLeft' = IF user THEN userLeft - 1 ELSE userLeft
    /\ failLeft' = failLeft - s.cost
    /\ isPlaying' = s.isPlaying
    /\ currentStation' = s.currentStation
    /\ volume' = s.volume
    /\ startTime' = s.startTime
    /\ process' = s.process
    /\ reconnectAttempts' = s.reconnectAttempts
    /\ calls' = s.calls
    /\ killTimers' = s.killTimers
    /\ reconnectTimers' = s.reconnectTimers
    /\ ev' = s.ev
    /\ op' = s.op
    /\ now' = s.now
    /\ startMs' = (IF s.startTime = "null" THEN 0 ELSE s.startMs)
    /\ snap' = Held(s)
    /\ uptime' = s.uptime
    /\ clockLeft' = (IF s.now = now THEN clockLeft ELSE clockLeft - 1)
    /\ repl' = Heard(repl, s.ev)
    /\ lost' = IF user THEN FALSE ELSE (lost \/ Count(s.ev, "connection_lost") > 0)
    /\ reconnSince' = IF user THEN 0 - 1
                      ELSE IF Count(s.ev, "playing") > 0 THEN 0
                      ELSE IF reconnSince < 0 THEN reconnSince
                      ELSE Min(reconnSince + Count(s.ev, "reconnecting"),
                               maxReconnectAttempts + 1)

Idle ==
    /\ isPlaying = FALSE
    /\ currentStation = NoStation
    /\ volume = DefaultVolume
    /\ startTime = "null"
    /\ process = NoProc
    /\ reconnectAttempts = 0
    /\ now = 0
    /\ startMs = 0
    /\ snap = NoSnap
    /\ uptime = NoUptime
    /\ calls = [c \in CallIds |-> FreeCall]
    /\ killTimers = {}
    /\ reconnectTimers = <<>>
    /\ ev = <<>>
    /\ op = NoOp
    /\ reconnSince = 0 - 1
    /\ lost = FALSE

\* A run of Spec: MaxOps calls and failures, split in any way.
Init ==
    /\ Idle
    /\ repl = NoRepl
    /\ clockLeft = 0
    /\ userLeft \in 0..MaxOps
    /\ failLeft = MaxOps - userLeft

\* The caller invokes play(station, v).
UserPlayBody(s, station, v, o) ==
    PlayBody(AddCall(s, station, v, "user", "new", FALSE), FreeId(s), o)

\* play() reaches its spawn in the macrotask that calls it.
SpawnsNow(s) == ~(s.isPlaying /\ s.process # NoProc)

\* What spawn does is chosen only in a macrotask that reaches a spawn, and a
\* failing spawn is a failure of the run.
Chosen(o, spawns) == o = "ok" \/ (failLeft > 0 /\ spawns)

UserPlay(station, v, o) ==
    /\ userLeft > 0
    /\ \E s \in {[Cur EXCEPT !.op = CallerOp("play", v)]} :
        /\ HasFree(s)
        /\ Chosen(o, SpawnsNow(s))
        /\ \E r \in {UserPlayBody(s, station, v, o)} : Commit(r, TRUE)

\* The caller invokes stop().  A reconnect timer pending now is superseded.
UserStop ==
    /\ userLeft > 0
    /\ \E s \in {[Cur EXCEPT !.op = CallerOp("stop", NoVolumeArg),
                             !.reconnectTimers =
                  [i \in 1..Len(@) |-> [@[i] EXCEPT !.superseded = TRUE]]]} :
        \E r \in {StopBody(s, 0)} : Commit(r, TRUE)

\* A setVolume(v) whose restart stops the process and never plays again.
SetVolumeBodyNoReplay(s, v, o) ==
    LET s1 == [s EXCEPT !.volume = v] IN
    IF s1.isPlaying /\ s1.currentStation # NoStation THEN StopBody(s1, 0) ELSE s1

\* setVolume(v): the restart is stop().then(() => play(station, volume)).
SetVolumeBody(s, v, o) ==
    LET s1 == [s EXCEPT !.volume = v] IN
    IF s1.isPlaying /\ s1.currentStation # NoStation
    THEN LET c == FreeId(s1)
             s2 == AddCall(s1, s1.currentStation, v, "setVolume", "thenPlay", FALSE)
         IN IF s2.process = NoProc THEN PlayBody(s2, c, o) ELSE StopBody(s2, c)
    ELSE s1

\* A setVolume(v) that checks only the lower end of the range.
UserSetVolumeNoUpper(v, o) ==
    /\ userLeft > 0
    /\ \E s \in {[Cur EXCEPT !.op = CallerOp("setVolume", v)]} :
        IF v < 0
        THEN o = "ok" /\ Commit(s, TRUE)
        ELSE /\ HasFree(s)
             /\ Chosen(o, s.isPlaying /\ s.currentStation # NoStation /\ s.process = NoProc)
             /\ \E r \in {SetVolumeBody(s, v, o)} : Commit(r, TRUE)

\* The caller invokes setVolume(v); a volume outside [0,100] throws.
UserSetVolume(v, o) ==
    /\ userLeft > 0
    /\ \E s \in {[Cur EXCEPT !.op = CallerOp("setVolume", v)]} :
        IF v < 0 \/ v > 100
        THEN o = "ok" /\ Commit(s, TRUE)
        ELSE /\ HasFree(s)
             /\ Chosen(o, s.isPlaying /\ s.currentStation # NoStation /\ s.process = NoProc)
             /\ \E r \in {SetVolumeBody(s, v, o)} : Commit(r, TRUE)

\* The child p writes a chunk with "Invalid data" or "Connection refused" to
\* its stderr; the 'data' listener that play() registered is still on the stream.
StderrFatal(p) ==
    /\ calls[p].alive
    /\ failLeft > 0
    /\ \E r \in {HandleStreamError([Cur EXCEPT !.cost = 1], calls[p].station, p)} :
          Commit(r, FALSE)

\* An exit listener that reports every exit while playing, whatever the code.
PlayExitListenerAnyCode(s, p, code) ==
    LET s1 == IF s.isPlaying
              THEN HandleStreamError([s EXCEPT !.cost = @ + 1], s.calls[p].station, p)
              ELSE s
    IN [s1 EXCEPT !.isPlaying = FALSE, !.process = NoProc]

\* The exit listener that play() registered on the child p.
PlayExitListener(s, p, code) ==
    LET s1 == IF s.isPlaying /\ code # 0
              THEN HandleStreamError([s EXCEPT !.cost = @ + 1], s.calls[p].station, p)
              ELSE s
    IN [s1 EXCEPT !.isPlaying = FALSE, !.process = NoProc]

\* The exit listener that stop() registered on the child p, and the
\* continuation of whoever awaits that stop.
StopExitListener(s, p, o) ==
    LET s1 == Emit([s EXCEPT !.process = NoProc], Event("stopped", NoStation, 0, p, TRUE))
        k == s.calls[p].stopK
    IN IF k = 0 THEN s1
       ELSE IF s1.calls[k].phase = "awaitStop" THEN PlayRest(s1, k, o)
       ELSE PlayBody(s1, k, o)

\* The child p exits with the given code while the listeners of play() are
\* registered on it.
ExitPlaying(p, code) ==
    /\ calls[p].alive
    /\ calls[p].lst = "play"
    /\ (isPlaying /\ code # 0) => failLeft > 0
    /\ \E r \in {PlayExitListener([Cur EXCEPT !.calls[p].alive = FALSE,
                                                !.calls[p].exitCode = code], p, code)} :
          Commit(r, FALSE)

\* The child p exits after a stop() has replaced its listeners (the listener
\* of stop() does not look at the code).
ExitStopped(p, o) ==
    /\ calls[p].alive
    /\ calls[p].lst = "stop"
    /\ Chosen(o, calls[p].stopK # 0)
    /\ \E r \in {StopExitListener([Cur EXCEPT !.calls[p].alive = FALSE], p, o)} :
          Commit(r, FALSE)

\* The grace timer of the play() call c, 1000 ms after its spawn.
GraceBody(s, c) ==
    LET s1 == [s EXCEPT !.calls[c].grace = 0 - 1] IN
    IF s1.isPlaying
    THEN [Emit(s1, Event("playing", s1.calls[c].station, 0, c, s1.calls[c].lst = "stop")) EXCEPT
             !.calls[c].promise = IF @ = "pending" THEN "resolved" ELSE @]
    ELSE s1

GraceFire(c) ==
    /\ calls[c].grace = 0
    /\ \E r \in {GraceBody(Cur, c)} : Commit(r, FALSE)

\* The escalation timer of a stop(), 2000 ms after its SIGTERM.
KillBody(s, t) ==
    LET s1 == [s EXCEPT !.killTimers = @ \ {t}] IN
    IF s1.process = t.proc
    THEN [s1 EXCEPT !.calls[t.proc].killed = s1.calls[t.proc].alive]
    ELSE s1

KillFire(t) ==
    /\ t.rem = 0
    /\ \E r \in {KillBody(Cur, t)} : Commit(r, FALSE)

\* The reconnect timer of handleStreamError, 3000 ms after the failure:
\* play(error.station, this.state.volume).
ReconnectBody(s, o) ==
    LET t == Head(s.reconnectTimers)
        s1 == [s EXCEPT !.reconnectTimers = Tail(@)]
    IN PlayBody(AddCall(s1, t.station, s1.volume, "reconnect", "new", t.superseded),
                FreeId(s1), o)

ReconnectFire(o) ==
    /\ reconnectTimers # <<>>
    /\ Head(reconnectTimers).rem = 0
    /\ \E s \in {Cur} :
          /\ HasFree(s)
          /\ Chosen(o, SpawnsNow(s))
          /\ \E r \in {ReconnectBody(s, o)} : Commit(r, FALSE)

\* A timer is due: no time passes before it has fired.
TimerDue(s) ==
    \/ \E c \in CallIds : s.calls[c].grace = 0
    \/ \E t \in s.killTimers : t.rem = 0
    \/ \E i \in 1..Len(s.reconnectTimers) : s.reconnectTimers[i].rem = 0

TimerPending(s) ==
    \/ \E c \in CallIds : s.calls[c].grace > 0
    \/ s.killTimers # {}
    \/ s.reconnectTimers # <<>>

\* 1000 ms pass.
TickBody(s) ==
    [s EXCEPT !.calls = [c \in CallIds |->
                            [@[c] EXCEPT !.grace = IF @ > 0 THEN @ - 1 ELSE @]],
              !.killTimers = {[t EXCEPT !.rem = @ - 1] : t \in @},
              !.reconnectTimers = [i \in 1..Len(@) |-> [@[i] EXCEPT !.rem = @ - 1]]]

Tick ==
    \E s \in {Cur} :
        /\ ~TimerDue(s)
        /\ TimerPending(s)
        /\ \E r \in {TickBody(s)} : Commit(r, FALSE)

Next ==
    \/ \E st \in Stations, v \in VolumeArgs, o \in SpawnOutcomes : UserPlay(st, v, o)
    \/ UserStop
    \/ \E v \in SetVolumeArgs, o \in SpawnOutcomes : UserSetVolume(v, o)
    \/ \E p \in CallIds : StderrFatal(p)
    \/ \E p \in CallIds, code \in ExitCodes : ExitPlaying(p, code)
    \/ \E p \in CallIds, o \in SpawnOutcomes : ExitStopped(p, o)
    \/ \E c \in CallIds : GraceFire(c)
    \/ \E t \in killTimers : KillFire(t)
    \/ \E o \in SpawnOutcomes : ReconnectFire(o)
    \/ Tick

Spec == Init /\ [][Next]_vars

\* A run of SpecStorm: one call of the caller, then failure after failure.
InitStorm ==
    /\ Idle
    /\ repl = NoRepl
    /\ clockLeft = 0
    /\ userLeft = 1
    /\ failLeft = MaxStormFailures

\* The caller plays once; every spawn succeeds, and children fail.
NextStorm ==
    \/ \E v \in VolumeArgs : UserPlay("A", v, "ok")
    \/ \E p \in CallIds : StderrFatal(p)
    \/ \E p \in CallIds, code \in ExitCodes : ExitPlaying(p, code)
    \/ \E p \in CallIds : ExitStopped(p, "ok")
    \/ \E c \in CallIds : GraceFire(c)
    \/ \E t \in killTimers : KillFire(t)
    \/ ReconnectFire("ok")
    \/ Tick

SpecStorm == InitStorm /\ [][NextStorm]_vars

\* A run of SpecVolume: the caller plays one station, stops and sets the
\* volume, with any of the volumes above; nothing fails.
InitVolume ==
    /\ Idle
    /\ repl = NoRepl
    /\ clockLeft = 0
    /\ userLeft = MaxOps
    /\ failLeft = 0

NextVolume ==
    \/ \E v \in PlayVolumes : UserPlay("A", v, "ok")
    \/ UserStop
    \/ \E v \in SetVolumes : UserSetVolume(v, "ok")
    \/ \E p \in CallIds : ExitPlaying(p, 0)
    \/ \E p \in CallIds : ExitStopped(p, "ok")
    \/ \E c \in CallIds : GraceFire(c)
    \/ \E t \in killTimers : KillFire(t)
    \/ Tick

SpecVolume == InitVolume /\ [][NextVolume]_vars

\* A run of SpecRestart: the caller plays a station and, while it plays, sets
\* the volume once; nothing fails, and nothing else is called.
InitRestart ==
    /\ Idle
    /\ repl = NoRepl
    /\ clockLeft = 0
    /\ userLeft = 2
    /\ failLeft = 0

NextRestart ==
    \/ \E st \in Stations : userLeft = 2 /\ UserPlay(st, NoVolumeArg, "ok")
    \/ \E v \in SetVolumes : userLeft = 1 /\ UserSetVolume(v, "ok")
    \/ \E p \in CallIds : ExitStopped(p, "ok")
    \/ \E c \in CallIds : GraceFire(c)
    \/ \E t \in killTimers : KillFire(t)
    \/ Tick

\* A child that was sent SIGTERM or SIGKILL exits; timers fire; time passes.
FairRestart ==
    /\ WF_vars(\E p \in CallIds : ExitStopped(p, "ok"))
    /\ WF_vars(\E c \in CallIds : GraceFire(c))
    /\ WF_vars(\E t \in killTimers : KillFire(t))
    /\ WF_vars(Tick)

SpecRestart == InitRestart /\ [][NextRestart]_vars /\ FairRestart

\* Playback is confirmed: the play() call of the process the supervisor holds
\* has resolved.
Confirmed ==
    /\ isPlaying
    /\ process # NoProc
    /\ calls[process].alive
    /\ calls[process].promise = "resolved"

\* A run of SpecSwitch: the caller plays a station and, once it is confirmed,
\* plays a station again; nothing fails, and nothing else is called.
InitSwitch ==
    /\ Idle
    /\ repl = NoRepl
    /\ clockLeft = 0
    /\ userLeft = 2
    /\ failLeft = 0

NextSwitch ==
    \/ \E st \in Stations : userLeft = 2 /\ UserPlay(st, NoVolumeArg, "ok")
    \/ \E st \in Stations, v \in PlayVolumes :
          userLeft = 1 /\ Confirmed /\ UserPlay(st, v, "ok")
    \/ \E p \in CallIds : ExitStopped(p, "ok")
    \/ \E c \in CallIds : GraceFire(c)
    \/ \E t \in killTimers : KillFire(t)
    \/ Tick

SpecSwitch == InitSwitch /\ [][NextSwitch]_vars

\* ---- what the caller observes ----

\* getState(): { ...this.state }.  The fields are copied; the Date and the
\* process handle are objects, and the copy refers to the same ones.  ms is
\* the time value of the Date the returned startTime refers to.
getState(s) ==
    [taken |-> TRUE, isPlaying |-> s.isPlaying, currentStation |-> s.currentStation,
     volume |-> s.volume, startTime |-> s.startTime, ms |-> s.startMs,
     dateShared |-> s.startTime = "date", process |-> s.process]

\* A getUptime() that prints the whole minutes after the hours.
getUptimeNoWrap(s) ==
    IF s.startTime = "null" \/ ~s.isPlaying THEN "Not playing"
    ELSE LET diff == s.now - s.startMs
             seconds == diff \div 1000
             minutes == seconds \div 60
             hours == minutes \div 60
         IN IF hours > 0
            THEN ToString(hours) \o "h " \o ToString(minutes) \o "m "
                   \o ToString(seconds % 60) \o "s"
            ELSE IF minutes > 0
                 THEN ToString(minutes) \o "m " \o ToString(seconds % 60) \o "s"
                 ELSE ToString(seconds) \o "s"

\* getUptime(); \div is Math.floor of the quotient.
getUptime(s) ==
    IF s.startTime = "null" \/ ~s.isPlaying THEN "Not playing"
    ELSE LET diff == s.now - s.startMs
             seconds == diff \div 1000
             minutes == seconds \div 60
             hours == minutes \div 60
         IN IF hours > 0
            THEN ToString(hours) \o "h " \o ToString(minutes % 60) \o "m "
                   \o ToString(seconds % 60) \o "s"
            ELSE IF minutes > 0
                 THEN ToString(minutes) \o "m " \o ToString(seconds % 60) \o "s"
                 ELSE ToString(seconds) \o "s"

\* formatUptime(seconds) of utils/helpers.ts.
formatUptime(seconds) ==
    LET hours == seconds \div 3600
        minutes == (seconds % 3600) \div 60
        secs == seconds % 60
    IN IF hours > 0
       THEN ToString(hours) \o "h " \o ToString(minutes) \o "m " \o ToString(secs) \o "s"
       ELSE IF minutes > 0
            THEN ToString(minutes) \o "m " \o ToString(secs) \o "s"
            ELSE ToString(secs) \o "s"

\* The caller invokes getState() and keeps what it returns.
UserGetState ==
    /\ userLeft > 0
    /\ \E s \in {[Cur EXCEPT !.op = CallerOp("getState", NoVolumeArg)]} :
          Commit([s EXCEPT !.snap = getState(s)], TRUE)

\* The caller invokes getUptime().
UserGetUptime ==
    /\ userLeft > 0
    /\ \E s \in {[Cur EXCEPT !.op = CallerOp("getUptime", NoVolumeArg)]} :
          Commit([s EXCEPT !.uptime = getUptime(s)], TRUE)

\* The caller assigns fields of the value it holds: isPlaying, currentStation
\* and volume.
SnapshotAssign(playing, station, v) ==
    /\ snap.taken
    /\ \E s \in {[Cur EXCEPT !.op = CallerOp("snapshot.assign", NoVolumeArg)]} :
          Commit([s EXCEPT !.snap.isPlaying = playing,
                           !.snap.currentStation = station,
                           !.snap.volume = v], FALSE)

\* The caller invokes startTime.setTime(ms) on the value it holds.
SnapshotSetTime(ms) ==
    /\ snap.taken
    /\ snap.startTime = "date"
    /\ \E s \in {[Cur EXCEPT !.op = CallerOp("snapshot.startTime.setTime", NoVolumeArg)]} :
          Commit([s EXCEPT !.snap.ms = ms,
                           !.startMs = IF s.snap.dateShared THEN ms ELSE @], FALSE)

\* The caller invokes process.kill() on the value it holds: the child, if it
\* runs, receives SIGTERM.
SnapshotKill ==
    /\ snap.taken
    /\ snap.process # NoProc
    /\ \E s \in {[Cur EXCEPT !.op = CallerOp("snapshot.process.kill", NoVolumeArg)]} :
          Commit([s EXCEPT !.calls[snap.process].term = s.calls[snap.process].alive],
                 FALSE)

\* The wall clock advances by d ms.
ClockAdvance(d) ==
    /\ clockLeft > 0
    /\ \E s \in {Cur} : Commit([s EXCEPT !.now = @ + d], FALSE)

\* A run of SpecUptime: the caller plays a station, stops and asks for the
\* uptime while the wall clock advances; the child may exit on its own, with
\* code 0.
InitUptime ==
    /\ Idle
    /\ repl = NoRepl
    /\ clockLeft = MaxClockSteps
    /\ userLeft = 2
    /\ failLeft = 0

NextUptime ==
    \/ UserPlay("A", NoVolumeArg, "ok")
    \/ UserStop
    \/ UserGetUptime
    \/ \E d \in ClockSteps : ClockAdvance(d)
    \/ \E p \in CallIds : ExitPlaying(p, 0)
    \/ \E p \in CallIds : ExitStopped(p, "ok")
    \/ \E c \in CallIds : GraceFire(c)
    \/ \E t \in killTimers : KillFire(t)
    \/ Tick

SpecUptime == InitUptime /\ [][NextUptime]_vars

\* A run of SpecObserve: the caller plays a station, stops, keeps what
\* getState() returns and modifies it, and asks for the uptime, while the wall
\* clock advances; the child may exit on its own.
InitObserve ==
    /\ Idle
    /\ repl = NoRepl
    /\ clockLeft = MaxClockSteps
    /\ userLeft = MaxOps
    /\ failLeft = 1

NextObserve ==
    \/ UserPlay("A", NoVolumeArg, "ok")
    \/ UserStop
    \/ UserGetState
    \/ UserGetUptime
    \/ SnapshotAssign(TRUE, "B", 0)
    \/ \E ms \in SetTimes : SnapshotSetTime(ms)
    \/ SnapshotKill
    \/ ClockAdvance(125000)
    \/ \E p \in CallIds, code \in ExitCodes : ExitPlaying(p, code)
    \/ \E p \in CallIds : ExitStopped(p, "ok")
    \/ \E c \in CallIds : GraceFire(c)
    \/ \E t \in killTimers : KillFire(t)
    \/ ReconnectFire("ok")
    \/ Tick

SpecObserve == InitObserve /\ [][NextObserve]_vars

\* ---- the RadioREPL ----

\* The volume the RadioREPL reads from its configuration for play().
ConfigVolume == DefaultVolume

\* handlePlay(station): play(selectedStation, volume); a rejection is caught.
ReplPlay(station, o) ==
    /\ repl.attached
    /\ UserPlay(station, ConfigVolume, o)

\* handleStop(): returns without a call of stop() when the mirrored flag is
\* false, and invokes stop() otherwise.
ReplStop ==
    /\ repl.attached
    /\ IF repl.isPlaying
       THEN UserStop
       ELSE /\ userLeft > 0
            /\ \E s \in {[Cur EXCEPT !.op = CallerOp("handleStop", NoVolumeArg)]} :
                  Commit(s, TRUE)

\* A run of SpecRepl: the RadioREPL plays stations and stops on the
\* commands of its user; a child may exit on its own.
InitRepl ==
    /\ Idle
    /\ repl = Repl(FALSE, NoStation)
    /\ clockLeft = 0
    /\ userLeft = MaxOps
    /\ failLeft = 1

NextRepl ==
    \/ \E st \in Stations : ReplPlay(st, "ok")
    \/ ReplStop
    \/ \E p \in CallIds : StderrFatal(p)
    \/ \E p \in CallIds, code \in ExitCodes : ExitPlaying(p, code)
    \/ \E p \in CallIds : ExitStopped(p, "ok")
    \/ \E c \in CallIds : GraceFire(c)
    \/ \E t \in killTimers : KillFire(t)
    \/ ReconnectFire("ok")
    \/ Tick

FairRepl ==
    /\ WF_vars(\E p \in CallIds : ExitStopped(p, "ok"))
    /\ WF_vars(\E c \in CallIds : GraceFire(c))
    /\ WF_vars(\E t \in killTimers : KillFire(t))
    /\ WF_vars(ReconnectFire("ok"))
    /\ WF_vars(Tick)

SpecRepl == InitRepl /\ [][NextRepl]_vars /\ FairRepl

\* ---- the claims ----

EventsOf(types) == {i \in 1..Len(ev) : ev[i].type \in types}

Alive == {c \in CallIds : calls[c].alive}

\* C1: in every reachable state isPlaying implies that the process handle is
\* non-null and currentStation is non-null.
C1_PlayingHasProcessAndStation ==
    isPlaying => (process # NoProc /\ currentStation # NoStation)

\* C2: at most one spawned external playback process is alive (spawned and
\* not yet exited) at any time.
C2_AtMostOneAlive == Cardinality(Alive) <= 1

\* C3: after a confirmed play, with failure after failure and no confirmed
\* playing in between, at most maxReconnectAttempts (5) reconnecting events
\* are emitted before connection_lost ends the session: a sixth never follows.
C3_ReconnectsBounded == reconnSince <= maxReconnectAttempts

\* C4: in the macrotask of a reconnect timer whose attempt spawns a process,
\* the reconnect counter goes back to zero only if playback is confirmed there
\* (playing emitted): the spawn of an automatic reconnect never resets it.
C4_ResetOnlyAtConfirmation ==
    [][(/\ reconnectAttempts > 0
        /\ reconnectAttempts' = 0
        /\ reconnectTimers # <<>>
        /\ reconnectTimers' = Tail(reconnectTimers))
          => Count(ev', "playing") > 0]_vars

\* C5: whenever the playing event is emitted, the reconnect counter is 0 at
\* that moment.
C5_CounterZeroAtPlaying == Count(ev, "playing") > 0 => reconnectAttempts = 0

\* C6: a play() call whose child was seen to fail before its grace timer fired
\* is not resolved successfully.
C6_FailureBeforeGraceDecides ==
    \A c \in CallIds : calls[c].failed => calls[c].promise # "resolved"

\* C7: every play() call settles: a call that has spawned and whose grace
\* timer has fired, after which nothing is left that could settle its
\* promise, has been resolved or rejected.
C7_PlaySettles ==
    \A c \in CallIds :
        (calls[c].phase = "spawned" /\ calls[c].grace < 0) => calls[c].promise # "pending"

\* C8: a play() call that was pending when stop() was invoked on its child is
\* never resolved successfully afterwards.
C8_StoppedPlayNeverResolves ==
    \A c \in CallIds : calls[c].cancelled => calls[c].promise # "resolved"

\* C9: a reconnect timer that was pending when the caller invoked stop() spawns
\* no process when it fires.
C9_SupersededTimerIgnored ==
    \A c \in CallIds : calls[c].stale => calls[c].phase # "spawned"

\* C10: once stop() has been invoked on a child, nothing that child does (its
\* exit, its stderr output) causes an error, reconnecting or connection_lost
\* event.
C10_NoFailureEventsAfterStop ==
    \A i \in EventsOf({"error", "reconnecting", "connection_lost"}) : ~ev[i].afterStop

\* C11: every stop() call completes: no stop() is left with a promise that
\* nothing can resolve, neither by a later stop() on the same child nor on the
\* handle of a child that was never started.
C11_StopCompletes == \A c \in CallIds : ~calls[c].stopLost

\* C12: the stopped event is emitted, and the promise of stop() resolved, only
\* once the exit of the stopped child has been received: a state that shows a
\* stopped event shows its child exited, and a play() that awaits a stop()
\* has not gone on while the stopped child still runs.
C12_StopResolvesAfterExit ==
    /\ \A i \in EventsOf({"stopped"}) : ~calls[ev[i].src].alive
    /\ \A p \in CallIds :
          (calls[p].alive /\ calls[p].lst = "stop" /\ calls[p].stopK # 0)
              => calls[calls[p].stopK].phase \in {"awaitStop", "thenPlay"}

\* C12 witness: a child that was sent SIGTERM by stop() has exited and stopped
\* has been emitted for it, releasing the play() that awaited the stop.
C12_Witness ==
    \E i \in EventsOf({"stopped"}) :
        /\ calls[ev[i].src].term
        /\ ~calls[ev[i].src].alive
        /\ \E k \in CallIds : calls[k].phase = "spawned" /\ calls[k].alive /\ process = k

\* C13: when the escalation timer of a stop() fires and the child that was
\* asked to terminate has not exited, that child is sent SIGKILL, whatever
\* process handle the supervisor holds by then.
C13_EscalationKills ==
    [][\A t \in killTimers :
          (/\ t.rem = 0
           /\ t \notin killTimers'
           /\ calls[t.proc].alive
           /\ calls'[t.proc].alive)
              => calls'[t.proc].killed]_vars

\* C14: a stop() called by the caller while no process handle is held changes
\* no field of the playback state, sends no signal, arms no timer, emits no
\* event and leaves no promise waiting.
C14_StopIdempotent ==
    [][(process = NoProc /\ op'.name = "stop")
          => /\ UNCHANGED <<isPlaying, currentStation, volume, startTime, process,
                            reconnectAttempts>>
             /\ ev' = <<>>
             /\ killTimers' \subseteq killTimers
             /\ \A c \in CallIds :
                   /\ calls'[c].term => calls[c].term
                   /\ calls'[c].killed => calls[c].killed
                   /\ calls'[c].lst = "stop" => calls[c].lst = "stop"
                   /\ ~calls'[c].stopLost]_vars

\* C14 witness: the caller has called stop() with no process handle held, in
\* a state that still shows the station of the last playback.
C14_Witness ==
    /\ op.name = "stop"
    /\ process = NoProc
    /\ currentStation # NoStation

\* C15: a play() whose spawn fails with ENOENT, whoever made it, causes no
\* reconnecting event and does not increment the reconnect counter.
C15_EnoentNeverReconnects ==
    \A c \in CallIds :
        calls[c].outcome = "enoent"
            => /\ \A i \in EventsOf({"reconnecting"}) : ev[i].src # c
               /\ reconnectAttempts = 0

\* C16: a play() whose spawn fails with ENOENT is rejected and isPlaying is
\* false right afterwards; the rejected call is never resolved later.
C16_EnoentRejectsPlay ==
    /\ [](\A c \in CallIds :
            calls[c].outcome = "enoent" => (calls[c].promise = "rejected" /\ ~isPlaying))
    /\ [][\A c \in CallIds :
            calls[c].promise = "rejected" => calls'[c].promise # "resolved"]_vars

\* C16 witness: the spawn of a play() has just failed with ENOENT.
C16_Witness ==
    \E c \in CallIds :
        /\ calls[c].outcome = "enoent"
        /\ calls[c].promise = "rejected"
        /\ calls[c].grace = GraceDelay

\* C17: whenever a play(S) call whose child has not failed resolves with
\* playing(S) emitted, at that moment isPlaying is true, currentStation is S
\* and startTime is non-null.
C17_ConfirmedStateMatches ==
    \A i \in EventsOf({"playing"}) :
        (calls[ev[i].src].promise = "resolved" /\ ~calls[ev[i].src].failed)
            => /\ isPlaying
               /\ currentStation = ev[i].station
               /\ startTime = "date"

\* C18: in every reachable state startTime is non-null if and only if
\* isPlaying is true.
C18_StartTimeIffPlaying == (startTime = "date") <=> isPlaying

\* C19: the stored volume is in [0,100] in every reachable state, whatever
\* volume arguments play() and setVolume() are called with.
C19_VolumeInRange == volume \in 0..100

\* C20: setVolume(v) with v in [0,100] leaves the stored volume equal to v;
\* with v outside [0,100] it changes no field of the playback state, emits no
\* event, stops no process and spawns none.
C20_SetVolumeChecked ==
    [][op'.name = "setVolume"
          => IF op'.v \in 0..100
             THEN volume' = op'.v
             ELSE /\ UNCHANGED <<isPlaying, currentStation, volume, startTime, process,
                                 reconnectAttempts>>
                  /\ ev' = <<>>
                  /\ killTimers' \subseteq killTimers
                  /\ \A c \in CallIds :
                        /\ calls'[c].alive => calls[c].alive
                        /\ calls'[c].term => calls[c].term
                        /\ calls'[c].lst = "stop" => calls[c].lst = "stop"
                        /\ calls'[c].phase # "free" => calls'[c].phase = calls[c].phase]_vars

\* C20 witness: the caller has called setVolume(101) while a station plays
\* at another volume.
C20_Witness ==
    /\ op = CallerOp("setVolume", 101)
    /\ isPlaying
    /\ process # NoProc
    /\ volume = 40

\* C21: a play(station, v) with v in [0,100] that goes on to its spawn in the
\* macrotask of the call leaves the stored volume, from which the gain of
\* the child is computed, equal to v.
C21_PlayRecordsVolume ==
    [][(/\ op'.name = "play"
        /\ op'.v \in 0..100
        /\ ~(isPlaying /\ process # NoProc))
          => volume' = op'.v]_vars

\* The caller has just called setVolume(v) while station st played: the call
\* has returned with the process of st asked to stop.
RestartRequested(st, v) ==
    /\ op = CallerOp("setVolume", v)
    /\ process # NoProc
    /\ calls[process].station = st
    /\ calls[process].lst = "stop"

\* Exactly one process is alive, the one the supervisor holds, playing st at
\* the volume v.
Restarted(st, v) ==
    /\ Cardinality(Alive) = 1
    /\ process \in Alive
    /\ calls[process].station = st
    /\ isPlaying
    /\ currentStation = st
    /\ volume = v

\* C22: setVolume(v) called while station S plays returns before the restart,
\* and the restart leads to exactly one process alive, playing S at volume v
\* with isPlaying true and currentStation S.
C22_SetVolumeRestarts ==
    \A st \in Stations, v \in SetVolumes \cap (0..100) :
        /\ [](op = CallerOp("setVolume", v) => (volume = v /\ ~Restarted(st, v)))
        /\ RestartRequested(st, v) ~> Restarted(st, v)

\* C22 witness: the restart of a setVolume(100) has spawned the new process,
\* the only one alive.
C22_Witness ==
    /\ Restarted("B", 100)
    /\ calls[process].origin = "setVolume"

\* C23: a play() called while a station is confirmed playing spawns its
\* process only after the old one has exited (two are never alive together),
\* and when that play() completes the only process alive is its own.
C23_PlaySwitchesCleanly ==
    /\ Cardinality(Alive) <= 1
    /\ \A i \in EventsOf({"playing"}) :
          userLeft = 0
              => /\ calls[ev[i].src].promise = "resolved"
                 /\ Alive = {ev[i].src}
                 /\ process = ev[i].src
                 /\ calls[process].station = ev[i].station

\* C23 witness: the second play(), for station B, has completed after the
\* stop of the first process, which was sent SIGTERM and has exited.
C23_Witness ==
    /\ userLeft = 0
    /\ \E i \in EventsOf({"playing"}) :
          /\ ev[i].station = "B"
          /\ Alive = {ev[i].src}
          /\ calls[ev[i].src].promise = "resolved"

\* C24: connection_lost is terminal: after it, and until the caller calls
\* again, no reconnecting or playing event is emitted and no process is
\* spawned, whatever reconnect timers were scheduled before it.
C24_ConnectionLostIsTerminal ==
    [][(lost /\ op'.name = "none")
          => /\ Count(ev', "reconnecting") = 0
             /\ Count(ev', "playing") = 0
             /\ \A c \in CallIds : calls'[c].alive => calls[c].alive]_vars

\* C25: when a child with the listeners of play() exits while isPlaying is
\* true, code 0 emits nothing, leaves the reconnect counter and the reconnect
\* timers as they are and leaves isPlaying false with a null handle; any
\* other code emits an error for that child and enters the reconnect handling
\* (reconnecting with the next attempt number, or connection_lost).
C25_ExitCodeDecides ==
    [][\A p \in CallIds :
          (isPlaying /\ calls[p].alive /\ calls[p].lst = "play" /\ ~calls'[p].alive)
              => /\ ~isPlaying'
                 /\ process' = NoProc
                 /\ IF calls'[p].exitCode = 0
                    THEN /\ ev' = <<>>
                         /\ reconnectAttempts' = reconnectAttempts
                         /\ reconnectTimers' = reconnectTimers
                    ELSE /\ Len(ev') = 2
                         /\ ev'[1].type = "error" /\ ev'[1].src = p
                         /\ IF reconnectAttempts < maxReconnectAttempts
                            THEN /\ ev'[2].type = "reconnecting"
                                 /\ ev'[2].n = reconnectAttempts + 1
                                 /\ reconnectAttempts' = reconnectAttempts + 1
                                 /\ Len(reconnectTimers') = Len(reconnectTimers) + 1
                            ELSE ev'[2].type = "connection_lost"]_vars

\* C25 witness: a child whose playback was confirmed has exited with code 0
\* while its play() listeners were registered.
C25_Witness ==
    \E p \in CallIds :
        /\ calls[p].exitCode = 0
        /\ calls[p].lst = "play"
        /\ calls[p].promise = "resolved"
        /\ ~isPlaying
        /\ process = NoProc

\* isPlaying, currentStation and startTime are all cleared.
Cleared ==
    /\ ~isPlaying
    /\ currentStation = NoStation
    /\ startTime = "null"

\* C26: a macrotask in which stop() is invoked with a process present (it
\* arms an escalation timer) ends with isPlaying, currentStation and startTime
\* all cleared, and they stay cleared until the body of a play() runs.
C26_StopClearsTogether ==
    [][/\ (\E t \in killTimers' \ killTimers : t.rem = KillDelay) => Cleared'
       /\ (Cleared /\ \A c \in CallIds : calls'[c].outcome = "none") => Cleared']_vars

\* C26 witness: the caller has called stop() on a running process, which has
\* not exited yet, and the three fields are cleared.
C26_Witness ==
    /\ op.name = "stop"
    /\ process # NoProc
    /\ calls[process].alive
    /\ calls[process].term
    /\ Cleared

\* C27: the reconnect counter is in 0..maxReconnectAttempts in every reachable
\* state, and every reconnecting(n) event carries 1 <= n <= maxReconnectAttempts.
C27_CounterWithinCap ==
    /\ reconnectAttempts \in 0..maxReconnectAttempts
    /\ \A i \in EventsOf({"reconnecting"}) : ev[i].n \in 1..maxReconnectAttempts

\* C27 witness: a failure has been reported with the counter at the cap: it
\* emitted connection_lost and left the counter at maxReconnectAttempts.
C27_Witness ==
    /\ reconnectAttempts = maxReconnectAttempts
    /\ Count(ev, "connection_lost") > 0
    /\ Count(ev, "reconnecting") = 0

\* C28: no modification a caller makes through the value getState() returned
\* (an assignment to its fields, setTime on its startTime, kill on its process
\* handle) changes the supervisor's playback state or what getState() and
\* getUptime() return.
C28_GetStateIsACopy ==
    [][op'.name \in {"snapshot.assign", "snapshot.startTime.setTime",
                     "snapshot.process.kill"}
          => /\ UNCHANGED <<isPlaying, currentStation, volume, startTime, startMs,
                           process>>
             /\ getState(Cur)' = getState(Cur)
             /\ getUptime(Cur)' = getUptime(Cur)]_vars

\* C29: getUptime() returns "Not playing" whenever isPlaying is false or
\* startTime is null; otherwise, for s whole elapsed seconds, "<s>s" when
\* s < 60, "<m>m <s mod 60>s" when 60 <= s < 3600 and
\* "<h>h <m mod 60>m <s mod 60>s" when s >= 3600, m and h being the whole
\* elapsed minutes and hours (45 -> "45s", 125 -> "2m 5s", 3603 -> "1h 0m 3s");
\* formatUptime of the whole elapsed seconds is the same string.
C29_UptimeFormat ==
    op.name = "getUptime" =>
        LET s == (now - startMs) \div 1000
            m == s \div 60
            h == s \div 3600
        IN IF ~isPlaying \/ startTime = "null" THEN uptime = "Not playing"
           ELSE /\ s < 60 => uptime = ToString(s) \o "s"
                /\ (60 <= s /\ s < 3600) =>
                      uptime = ToString(m) \o "m " \o ToString(s % 60) \o "s"
                /\ s >= 3600 =>
                      uptime = ToString(h) \o "h " \o ToString(m % 60) \o "m "
                                 \o ToString(s % 60) \o "s"
                /\ s = 45 => uptime = "45s"
                /\ s = 125 => uptime = "2m 5s"
                /\ s = 3603 => uptime = "1h 0m 3s"
                /\ uptime = formatUptime(s)

\* C29 witness: getUptime() has just returned "1h 0m 3s", for a playback that
\* started after the wall clock had advanced.
C29_Witness ==
    /\ op.name = "getUptime"
    /\ uptime = "1h 0m 3s"
    /\ startMs > 0

\* C30: at most one reconnect delay timer is pending at any time: several
\* fatal failures reported for the same process schedule a single reconnect
\* play.
C30_OneReconnectTimer == Len(reconnectTimers) <= 1

\* The supervisor holds a process that runs.
HoldsLiveProcess == process # NoProc /\ calls[process].alive

\* C31: the mirrored flag of the RadioREPL never hides a running process from
\* the stop command: a handleStop() that returns without invoking stop()
\* happens only when the supervisor holds no live process.
C31_StopReachesLiveProcess ==
    [][op'.name = "handleStop" => ~HoldsLiveProcess]_vars

====
